---- MODULE Spec2Model ----
(***************************************************************************)
(* A model of the go-getter backends: FileGetter (src/get_file.go),        *)
(* S3Getter (src/unnamed/part_000) and HgGetter (src/unnamed/part_001).    *)
(*                                                                         *)
(* Strings are sequences of tokens.  A token is a piece of text holding no *)
(* separator; the separators "/", ".", ":", "-", "?", "&", "=" are tokens  *)
(* of their own, so that Split, HasPrefix, Contains and filepath.Clean are *)
(* computed on the text as the Go code computes them.  The Go platform is  *)
(* fixed by GOOS.                                                          *)
(***************************************************************************)
EXTENDS Integers, Sequences, FiniteSets, TLC

VARIABLES
    ctxDone,    \* the cancellation token (context) has fired
    dreq,       \* detection: the Request (Src, Pwd, forced)
    dgetter,    \* detection: the backend whose detector is asked
    denv,       \* detection: what the environment answers (lstat of pwd, bitbucket)
    dres,       \* detection: the detector's result, or NoRes before it has run
    fs,         \* the file system: path -> entry
    fs0,        \* the file system as it was when the last retrieval call began
    freq,       \* FileGetter: the Request (path, Dst, Copy, Inplace)
    fres,       \* FileGetter: the last call's outcome, or NoRes
    s3,         \* S3Getter.Get: the locals of the running call and what it did
    hg          \* HgGetter: the position of the running call and what it did

vars == <<ctxDone, dreq, dgetter, denv, dres, fs, fs0, freq, fres, s3, hg>>

GOOS == "linux"

NoRes == [none |-> TRUE]

(***************************************************************************)
(* package strings                                                         *)
(***************************************************************************)
HasPrefix(s, p) == Len(s) >= Len(p) /\ SubSeq(s, 1, Len(p)) = p

HasSuffix(s, p) == Len(s) >= Len(p) /\ SubSeq(s, Len(s) - Len(p) + 1, Len(s)) = p

TrimPrefix(s, p) == IF HasPrefix(s, p) THEN SubSeq(s, Len(p) + 1, Len(s)) ELSE s

Contains(s, sub) ==
    \E i \in 1..(Len(s) - Len(sub) + 1) : SubSeq(s, i, i + Len(sub) - 1) = sub

\* index of the first token sep in s, 0 when there is none
Index(s, sep) ==
    IF \E i \in 1..Len(s) : s[i] = sep
    THEN CHOOSE i \in 1..Len(s) : s[i] = sep /\ \A j \in 1..(i - 1) : s[j] # sep
    ELSE 0

LastIndex(s, sep) ==
    IF \E i \in 1..Len(s) : s[i] = sep
    THEN CHOOSE i \in 1..Len(s) : s[i] = sep /\ \A j \in (i + 1)..Len(s) : s[j] # sep
    ELSE 0

RECURSIVE Split(_, _)
Split(s, sep) ==
    LET i == Index(s, sep)
    IN  IF i = 0 THEN <<s>>
        ELSE <<SubSeq(s, 1, i - 1)>> \o Split(SubSeq(s, i + 1, Len(s)), sep)

RECURSIVE SplitN(_, _, _)
SplitN(s, sep, n) ==
    LET i == Index(s, sep)
    IN  IF n <= 1 \/ i = 0 THEN <<s>>
        ELSE <<SubSeq(s, 1, i - 1)>> \o SplitN(SubSeq(s, i + 1, Len(s)), sep, n - 1)

RECURSIVE StringsJoin(_, _)
StringsJoin(parts, sep) ==
    IF Len(parts) = 0 THEN <<>>
    ELSE IF Len(parts) = 1 THEN parts[1]
    ELSE parts[1] \o <<sep>> \o StringsJoin(Tail(parts), sep)

(***************************************************************************)
(* package path/filepath (unix)                                            *)
(***************************************************************************)
Dot == <<".">>

DotDot == <<".", ".">>

IsAbs(p) == HasPrefix(p, <<"/">>)

\* the elements Clean keeps: "" and "." dropped, ".." taking back the element
\* before it (at the root it is dropped, at the start of a relative path kept)
RECURSIVE CleanElems(_, _, _)
CleanElems(elems, out, rooted) ==
    IF Len(elems) = 0 THEN out
    ELSE LET e == Head(elems)
             rest == Tail(elems)
         IN  IF e = <<>> \/ e = Dot THEN CleanElems(rest, out, rooted)
             ELSE IF e = DotDot
             THEN IF Len(out) > 0 /\ out[Len(out)] # DotDot
                  THEN CleanElems(rest, SubSeq(out, 1, Len(out) - 1), rooted)
                  ELSE IF rooted THEN CleanElems(rest, out, rooted)
                  ELSE CleanElems(rest, Append(out, e), rooted)
             ELSE CleanElems(rest, Append(out, e), rooted)

Clean(p) ==
    IF p = <<>> THEN Dot
    ELSE LET elems == CleanElems(Split(p, "/"), <<>>, IsAbs(p))
         IN  IF IsAbs(p) THEN <<"/">> \o StringsJoin(elems, "/")
             ELSE IF Len(elems) = 0 THEN Dot
             ELSE StringsJoin(elems, "/")

\* filepath.Join of two elements: empty elements are ignored, the rest is cleaned
Join(a, b) ==
    IF a = <<>> /\ b = <<>> THEN <<>>
    ELSE IF a = <<>> THEN Clean(b)
    ELSE IF b = <<>> THEN Clean(a)
    ELSE Clean(a \o <<"/">> \o b)

Dir(p) ==
    LET i == LastIndex(p, "/") IN Clean(SubSeq(p, 1, i))

RECURSIVE TrimTrailingSlashes(_)
TrimTrailingSlashes(p) ==
    IF Len(p) > 0 /\ p[Len(p)] = "/" THEN TrimTrailingSlashes(SubSeq(p, 1, Len(p) - 1))
    ELSE p

Base(p) ==
    IF p = <<>> THEN Dot
    ELSE LET q == TrimTrailingSlashes(p)
         IN  IF q = <<>> THEN <<"/">>
             ELSE SubSeq(q, LastIndex(q, "/") + 1, Len(q))

RECURSIVE ReplaceToken(_, _, _)
ReplaceToken(s, old, new) ==
    IF Len(s) = 0 THEN <<>>
    ELSE <<IF Head(s) = old THEN new ELSE Head(s)>> \o ReplaceToken(Tail(s), old, new)

ToSlash(p) == IF GOOS = "windows" THEN ReplaceToken(p, "\\", "/") ELSE p

\* the elements of a cleaned path, without the root and without "."
PathElems(p) ==
    LET q == IF IsAbs(p) THEN Tail(p) ELSE p
    IN  IF q = <<>> \/ q = Dot THEN <<>> ELSE Split(q, "/")

RECURSIVE CommonLen(_, _)
CommonLen(a, b) ==
    IF Len(a) = 0 \/ Len(b) = 0 \/ Head(a) # Head(b) THEN 0
    ELSE 1 + CommonLen(Tail(a), Tail(b))

\* filepath.Rel: [path, err]; targpath made relative to basepath
Rel(basepath, targpath) ==
    LET base == Clean(basepath)
        targ == Clean(targpath)
        be == PathElems(base)
        te == PathElems(targ)
        n == CommonLen(be, te)
        brest == SubSeq(be, n + 1, Len(be))
        trest == SubSeq(te, n + 1, Len(te))
        ups == [i \in 1..Len(brest) |-> DotDot]
    IN  IF targ = base THEN [path |-> Dot, err |-> ""]
        ELSE IF IsAbs(base) # IsAbs(targ)
        THEN [path |-> <<>>, err |-> "Rel: can't make relative"]
        ELSE IF Len(brest) > 0 /\ brest[1] = DotDot
        THEN [path |-> <<>>, err |-> "Rel: can't make relative"]
        ELSE IF Len(brest) > 0
        THEN [path |-> StringsJoin(ups \o trest, "/"), err |-> ""]
        ELSE [path |-> StringsJoin(trest, "/"), err |-> ""]

(***************************************************************************)
(* package net/url                                                         *)
(***************************************************************************)
SchemePunct == {".", "-", "+"}

OtherPunct == {"/", "?", "&", "=", "\\", ":"}

\* the tokens that begin with a digit
DigitWords == {"2"}

\* getScheme: the index of the ":" ending the scheme, 0 when the text has no
\* scheme, -1 for "missing protocol scheme"
RECURSIVE SchemeEnd(_, _)
SchemeEnd(s, i) ==
    IF i > Len(s) THEN 0
    ELSE IF s[i] = ":" THEN (IF i = 1 THEN -1 ELSE i)
    ELSE IF s[i] \in SchemePunct \/ s[i] \in DigitWords
    THEN (IF i = 1 THEN 0 ELSE SchemeEnd(s, i + 1))
    ELSE IF s[i] \in OtherPunct THEN 0
    ELSE SchemeEnd(s, i + 1)

\* url.Parse: [err, Scheme, Host, Path, RawQuery]
UrlParse(raw) ==
    LET se == SchemeEnd(raw, 1)
        scheme == IF se > 0 THEN SubSeq(raw, 1, se - 1) ELSE <<>>
        after == IF se > 0 THEN SubSeq(raw, se + 1, Len(raw)) ELSE raw
        qi == Index(after, "?")
        rest == IF qi = 0 THEN after ELSE SubSeq(after, 1, qi - 1)
        query == IF qi = 0 THEN <<>> ELSE SubSeq(after, qi + 1, Len(after))
        opaque == rest # <<>> /\ ~HasPrefix(rest, <<"/">>) /\ scheme # <<>>
        colonFirst == /\ ~HasPrefix(rest, <<"/">>)
                      /\ scheme = <<>>
                      /\ Contains(Split(rest, "/")[1], <<":">>)
        hasAuth == /\ HasPrefix(rest, <<"/", "/">>)
                   /\ (scheme # <<>> \/ ~HasPrefix(rest, <<"/", "/", "/">>))
        r2 == SubSeq(rest, 3, Len(rest))
        ai == Index(r2, "/")
    IN  IF se = -1
        THEN [err |-> "missing protocol scheme", Scheme |-> <<>>, Host |-> <<>>,
              Path |-> <<>>, Opaque |-> <<>>, RawQuery |-> <<>>]
        ELSE IF colonFirst
        THEN [err |-> "first path segment in URL cannot contain colon", Scheme |-> <<>>,
              Host |-> <<>>, Path |-> <<>>, Opaque |-> <<>>, RawQuery |-> <<>>]
        ELSE IF opaque
        THEN [err |-> "", Scheme |-> scheme, Host |-> <<>>, Path |-> <<>>,
              Opaque |-> rest, RawQuery |-> query]
        ELSE IF hasAuth
        THEN [err |-> "", Scheme |-> scheme,
              Host |-> IF ai = 0 THEN r2 ELSE SubSeq(r2, 1, ai - 1),
              Path |-> IF ai = 0 THEN <<>> ELSE SubSeq(r2, ai, Len(r2)),
              Opaque |-> <<>>, RawQuery |-> query]
        ELSE [err |-> "", Scheme |-> scheme, Host |-> <<>>, Path |-> rest,
              Opaque |-> <<>>, RawQuery |-> query]

\* (*URL).String
UrlString(u) ==
    (IF u.Scheme # <<>> THEN u.Scheme \o <<":">> ELSE <<>>)
    \o (IF u.Opaque # <<>> THEN u.Opaque
        ELSE (IF (u.Scheme # <<>> \/ u.Host # <<>>) /\ (u.Host # <<>> \/ u.Path # <<>>)
              THEN <<"/", "/">> \o u.Host ELSE <<>>)
             \o (IF u.Path # <<>> /\ u.Path[1] # "/" /\ u.Host # <<>> THEN <<"/">> ELSE <<>>)
             \o u.Path)
    \o (IF u.RawQuery # <<>> THEN <<"?">> \o u.RawQuery ELSE <<>>)

\* u.Query().Get(key): the value of the first key=value pair of the query
QueryGet(u, key) ==
    LET pairs == IF u.RawQuery = <<>> THEN <<>> ELSE Split(u.RawQuery, "&")
        hits == {i \in 1..Len(pairs) : SplitN(pairs[i], "=", 2)[1] = key}
    IN  IF hits = {} THEN <<>>
        ELSE LET i == CHOOSE h \in hits : \A k \in hits : h <= k
                 kv == SplitN(pairs[i], "=", 2)
             IN  IF Len(kv) = 2 THEN kv[2] ELSE <<>>

(***************************************************************************)
(* Detection: FileGetter.DetectGetter, S3Getter.Detect, HgGetter.Detect    *)
(***************************************************************************)
\* a detector's (string, bool, error); err = "" is a nil error
Res(addr, ok, err) == [addr |-> addr, ok |-> ok, err |-> err]

NotApplicable == Res(<<>>, FALSE, "")

FileValidScheme(scheme) == scheme = <<"file">>

S3validScheme(scheme) == scheme = <<"s3">>

HgvalidScheme(scheme) == scheme = <<"hg">>

fmtFileURL(path) == IF GOOS = "windows" THEN ToSlash(path) ELSE path

\* a Windows network-share path: \\host\share or //host/share
windowsSmbPath(path) ==
    HasPrefix(path, <<"\\", "\\">>) \/ HasPrefix(path, <<"/", "/">>)

\* where EvalSymlinks and Abs take a pwd that is a symbolic link
PwdTarget == <<"/", "real", "/", "work">>

FileDetectGetter(src, pwd) ==
    IF Len(src) = 0 THEN NotApplicable
    ELSE IF UrlParse(src).err = "" /\ UrlParse(src).Scheme = <<"file">>
    THEN Res(src, TRUE, "")
    ELSE LET relative == ~IsAbs(src)
             joined == IF ~relative THEN src
                       ELSE IF denv.pwdStat = "symlink" THEN Join(PwdTarget, src)
                       ELSE Join(pwd, src)
         IN  IF relative /\ pwd = <<>>
             THEN Res(<<>>, TRUE, "relative paths require a module with a pwd")
             ELSE IF relative /\ denv.pwdStat = "lstaterr"
             THEN Res(<<>>, TRUE, "lstat failed")
             ELSE IF relative /\ denv.pwdStat = "evalerr"
             THEN Res(<<>>, TRUE, "EvalSymlinks failed")
             ELSE IF windowsSmbPath(joined) THEN Res(joined, FALSE, "")
             ELSE Res(fmtFileURL(joined), TRUE, "")

AmazonHost == <<".", "amazonaws", ".", "com">>

S3detectPathStyle(region, parts) ==
    LET urlStr == <<"https", ":", "/", "/">> \o region \o AmazonHost \o <<"/">>
                  \o StringsJoin(parts, "/")
        u == UrlParse(urlStr)
    IN  IF u.err # "" THEN Res(<<>>, FALSE, "error parsing S3 URL")
        ELSE Res(UrlString(u), TRUE, "")

S3detectVhostStyle(region, bucket, parts) ==
    LET urlStr == <<"https", ":", "/", "/">> \o region \o AmazonHost \o <<"/">>
                  \o bucket \o <<"/">> \o StringsJoin(parts, "/")
        u == UrlParse(urlStr)
    IN  IF u.err # "" THEN Res(<<>>, FALSE, "error parsing S3 URL")
        ELSE Res(UrlString(u), TRUE, "")

S3detectHTTP(src) ==
    LET parts == Split(src, "/")
        hostParts == Split(parts[1], ".")
    IN  IF Len(parts) < 2 THEN Res(<<>>, FALSE, "URL is not a valid S3 URL")
        ELSE IF Len(hostParts) = 3 THEN S3detectPathStyle(hostParts[1], Tail(parts))
        ELSE IF Len(hostParts) = 4
        THEN S3detectVhostStyle(hostParts[2], hostParts[1], Tail(parts))
        ELSE Res(<<>>, FALSE, "URL is not a valid S3 URL")

\* the forced getter's last resort: the source joined with pwd, slashes normalised
ForcedFallback(req) ==
    LET src == IF req.Pwd # <<>> /\ ~IsAbs(req.Src) THEN Join(req.Pwd, req.Src)
               ELSE req.Src
    IN  Res(ToSlash(src), TRUE, "")

S3Detect(req) ==
    LET src == req.Src
        isForcedGetter == req.forced # <<>> /\ S3validScheme(req.forced)
        u == UrlParse(src)
    IN  IF Len(src) = 0 THEN NotApplicable
        ELSE IF req.forced # <<>> /\ ~S3validScheme(req.forced) THEN NotApplicable
        ELSE IF u.err = "" /\ u.Scheme # <<>>
        THEN IF isForcedGetter THEN Res(src, TRUE, "")
             ELSE IF S3validScheme(u.Scheme) THEN Res(src, TRUE, "")
             ELSE NotApplicable
        ELSE IF Contains(src, AmazonHost \o <<"/">>) THEN S3detectHTTP(src)
        ELSE IF isForcedGetter THEN ForcedFallback(req)
        ELSE NotApplicable

BitBucketPrefix == <<"bitbucket", ".", "org", "/">>

\* detectBitBucket: [result, u, err]; the repository's kind is what the
\* code-hosting service answers (denv.bb)
detectBitBucket(src) ==
    IF ~HasPrefix(src, BitBucketPrefix) THEN [result |-> "", u |-> <<>>, err |-> ""]
    ELSE IF denv.bb = "err"
    THEN [result |-> "", u |-> <<>>, err |-> "error communicating with BitBucket"]
    ELSE [result |-> denv.bb, u |-> <<"https", ":", "/", "/">> \o src, err |-> ""]

HgDetect(req) ==
    LET src == req.Src
        isForcedGetter == req.forced # <<>> /\ HgvalidScheme(req.forced)
        u == UrlParse(src)
        bb == detectBitBucket(src)
    IN  IF Len(src) = 0 THEN NotApplicable
        ELSE IF req.forced # <<>> /\ ~HgvalidScheme(req.forced) THEN NotApplicable
        ELSE IF u.err = "" /\ u.Scheme # <<>>
        THEN IF isForcedGetter THEN Res(src, TRUE, "")
             ELSE IF HgvalidScheme(u.Scheme) THEN Res(src, TRUE, "")
             ELSE NotApplicable
        ELSE IF bb.err # "" THEN Res(<<>>, TRUE, bb.err)
        ELSE IF bb.result = "hg" THEN Res(UrlString(UrlParse(bb.u)), TRUE, "")
        ELSE IF isForcedGetter THEN ForcedFallback(req)
        ELSE NotApplicable

DefaultRegion == <<"us", "-", "east", "-", "1">>

\* S3Getter.parseUrl: [region, bucket, path, version, err] (the static credentials
\* of the query are not modelled)
S3parseUrl(u) ==
    LET hostParts == Split(u.Host, ".")
        pathParts == SplitN(u.Path, "/", 3)
        bad == [region |-> <<>>, bucket |-> <<>>, path |-> <<>>, version |-> <<>>,
                err |-> "URL is not a valid S3 URL"]
        awsRegion == TrimPrefix(TrimPrefix(hostParts[1], <<"s3", "-">>), <<"s3">>)
        qRegion == QueryGet(u, <<"region">>)
    IN  IF Contains(u.Host, <<"amazonaws", ".", "com">>)
        THEN IF Len(hostParts) # 3 THEN bad
             ELSE IF Len(pathParts) # 3 THEN bad
             ELSE [region |-> IF awsRegion = <<>> THEN DefaultRegion ELSE awsRegion,
                   bucket |-> pathParts[2], path |-> pathParts[3],
                   version |-> QueryGet(u, <<"version">>), err |-> ""]
        ELSE IF Len(pathParts) # 3 THEN bad
        ELSE [region |-> IF qRegion = <<>> THEN DefaultRegion ELSE qRegion,
              bucket |-> pathParts[2], path |-> pathParts[3],
              version |-> QueryGet(u, <<"version">>), err |-> ""]

(***************************************************************************)
(* The sources, base directories and forced backends detection is run on   *)
(***************************************************************************)
SrcEmpty == <<>>

SrcAbs == <<"/", "abs", "/", "dir">>

SrcRel == <<".", "/", "modules", "/", "foo">>

SrcRelUp == <<".", ".", "/", "up">>

SrcSmb == <<"/", "/", "host", "/", "share">>

SrcFileURL == <<"file", ":", "/", "/", "/", "work", "/", "x">>

SrcS3URL == <<"s3", ":", "/", "/", "minio", "/", "bucket", "/", "key">>

SrcHgURL == <<"hg", ":", "/", "/", "example", ".", "com", "/", "repo">>

SrcHttpsURL == <<"https", ":", "/", "/", "example", ".", "com", "/", "repo">>

SrcPathStyle == <<"s3", ".", "amazonaws", ".", "com", "/", "bucket", "/", "key">>

SrcPathStyleRegion ==
    <<"s3", "-", "us", "-", "west", "-", "2", ".", "amazonaws", ".", "com", "/",
      "bucket", "/", "key", "/", "obj", ".", "txt">>

SrcVhostDash ==
    <<"bucket", ".", "s3", "-", "us", "-", "west", "-", "2", ".", "amazonaws", ".",
      "com", "/", "key", "/", "obj", ".", "txt">>

SrcVhostDot ==
    <<"bucket", ".", "s3", ".", "us", "-", "west", "-", "2", ".", "amazonaws", ".",
      "com", "/", "key", "/", "obj", ".", "txt">>

SrcBitBucket == <<"bitbucket", ".", "org", "/", "user", "/", "repo">>

Sources ==
    {SrcEmpty, SrcAbs, SrcRel, SrcRelUp, SrcSmb, SrcFileURL, SrcS3URL, SrcHgURL,
     SrcHttpsURL, SrcPathStyle, SrcPathStyleRegion, SrcVhostDash, SrcVhostDot,
     SrcBitBucket}

Pwds == {<<>>, <<"/", "work">>}

Schemes == {<<"file">>, <<"s3">>, <<"hg">>}

Forced == {<<>>} \cup Schemes

PwdStats == {"notexist", "dir", "symlink", "lstaterr", "evalerr"}

BitBucketAnswers == {"hg", "git", "err"}

OthersIdle ==
    /\ fs = <<>>
    /\ fs0 = <<>>
    /\ freq = NoRes
    /\ fres = NoRes
    /\ s3 = NoRes
    /\ hg = NoRes

InitDetect ==
    /\ ctxDone = FALSE
    /\ dreq \in [Src : Sources, Pwd : Pwds, forced : Forced]
    /\ dgetter \in Schemes
    /\ denv \in [pwdStat : PwdStats, bb : BitBucketAnswers]
    /\ dres = NoRes
    /\ OthersIdle

DetectFile ==
    /\ dres = NoRes
    /\ dgetter = <<"file">>
    /\ dres' = FileDetectGetter(dreq.Src, dreq.Pwd)
    /\ UNCHANGED <<ctxDone, dreq, dgetter, denv, fs, fs0, freq, fres, s3, hg>>

DetectS3 ==
    /\ dres = NoRes
    /\ dgetter = <<"s3">>
    /\ dres' = S3Detect(dreq)
    /\ UNCHANGED <<ctxDone, dreq, dgetter, denv, fs, fs0, freq, fres, s3, hg>>

DetectHg ==
    /\ dres = NoRes
    /\ dgetter = <<"hg">>
    /\ dres' = HgDetect(dreq)
    /\ UNCHANGED <<ctxDone, dreq, dgetter, denv, fs, fs0, freq, fres, s3, hg>>

NextDetect == DetectFile \/ DetectS3 \/ DetectHg

SpecDetect == InitDetect /\ [][NextDetect]_vars

(***************************************************************************)
(* Claims about detection (checked under SpecDetect)                       *)
(***************************************************************************)
Detected == dres # NoRes

\* C1: when the request names a non-empty forced backend, every backend whose
\* scheme is not the forced one (file, s3, hg) reports "not applicable" (no
\* address, not accepted, no error) for every non-empty source.
C1_ForcedIsExclusive ==
    (Detected /\ dreq.forced # <<>> /\ dgetter # dreq.forced /\ dreq.Src # <<>>)
        => dres = NotApplicable

\* C2: every address a detector returns as accepted (accepted, no error) carries
\* an explicit scheme among file, s3 and hg.
C2_AcceptedAddressHasScheme ==
    (Detected /\ dres.ok /\ dres.err = "")
        => /\ UrlParse(dres.addr).err = ""
           /\ UrlParse(dres.addr).Scheme \in Schemes

\* the bucket, region and key each S3 shorthand source names
ShorthandNames ==
    {[src |-> SrcPathStyle, region |-> DefaultRegion, bucket |-> <<"bucket">>,
      key |-> <<"key">>],
     [src |-> SrcPathStyleRegion, region |-> <<"us", "-", "west", "-", "2">>,
      bucket |-> <<"bucket">>, key |-> <<"key", "/", "obj", ".", "txt">>],
     [src |-> SrcVhostDash, region |-> <<"us", "-", "west", "-", "2">>,
      bucket |-> <<"bucket">>, key |-> <<"key", "/", "obj", ".", "txt">>],
     [src |-> SrcVhostDot, region |-> <<"us", "-", "west", "-", "2">>,
      bucket |-> <<"bucket">>, key |-> <<"key", "/", "obj", ".", "txt">>]}

\* C9: for every schemeless source with a path-style or a virtual-hosted-style
\* amazonaws.com host, S3Getter.Detect returns an accepted address without
\* error, and parseUrl of that address yields the bucket, region and key the
\* source names.
C9_S3ShorthandBothHostStyles ==
    \A e \in ShorthandNames :
        (Detected /\ dgetter = <<"s3">> /\ dreq.forced \in {<<>>, <<"s3">>}
         /\ dreq.Src = e.src)
            => /\ dres.ok
               /\ dres.err = ""
               /\ LET p == S3parseUrl(UrlParse(dres.addr))
                  IN  /\ p.err = ""
                      /\ p.bucket = e.bucket
                      /\ p.region = e.region
                      /\ p.path = e.key

(***************************************************************************)
(* The file system (package os).  fs maps each existing path to its entry; *)
(* a path outside DOMAIN fs does not exist.  The root always exists.       *)
(***************************************************************************)
Root == <<"/">>

DirEntry == [kind |-> "dir", data |-> <<>>]

FileEntry(content) == [kind |-> "file", data |-> content]

LinkEntry(target) == [kind |-> "link", data |-> target]

FsPut(f, p, e) == [q \in DOMAIN f \cup {p} |-> IF q = p THEN e ELSE f[q]]

FsDrop(f, ps) == [q \in DOMAIN f \ ps |-> f[q]]

\* p is q or lies below q
RECURSIVE Within(_, _)
Within(p, q) ==
    IF p = q THEN TRUE
    ELSE IF p = Root \/ Len(p) <= Len(q) THEN FALSE
    ELSE Within(Dir(p), q)

Children(f, p) == {q \in DOMAIN f : q # p /\ Dir(q) = p}

\* the symbolic links one path resolution follows before it gives up (ELOOP)
MaxSymlinks == 3

\* path resolution: [err, path]; the directories on the way are followed through
\* symbolic links, the last element only when follow is set.  With err = "" or
\* "ENOENT" path is where the entry is, or would be
RECURSIVE RealPath(_, _, _, _)
RealPath(f, p, follow, depth) ==
    LET parent == RealPath(f, Dir(p), TRUE, depth)
        q == Join(parent.path, Base(p))
    IN  IF depth = 0 THEN [err |-> "ELOOP", path |-> p]
        ELSE IF Clean(p) \in {Root, Dot} THEN [err |-> "", path |-> Root]
        ELSE IF parent.err # "" THEN [err |-> parent.err, path |-> p]
        ELSE IF f[parent.path].kind # "dir" THEN [err |-> "ENOTDIR", path |-> p]
        ELSE IF q \notin DOMAIN f THEN [err |-> "ENOENT", path |-> q]
        ELSE IF f[q].kind = "link" /\ follow THEN RealPath(f, f[q].data, TRUE, depth - 1)
        ELSE [err |-> "", path |-> q]

\* os.Stat and os.Lstat: [err, fi]
StatAt(r, f) == [err |-> r.err, fi |-> IF r.err = "" THEN f[r.path] ELSE DirEntry]

OsStat(f, p) == StatAt(RealPath(f, p, TRUE, MaxSymlinks), f)

OsLstat(f, p) == StatAt(RealPath(f, p, FALSE, MaxSymlinks), f)

IsNotExist(err) == err = "ENOENT"

\* os.Remove: a file, a link or an empty directory; [fs, err]
OsRemove(f, p) ==
    LET r == RealPath(f, p, FALSE, MaxSymlinks)
    IN  IF r.err # "" THEN [fs |-> f, err |-> r.err]
        ELSE IF Children(f, r.path) # {} THEN [fs |-> f, err |-> "ENOTEMPTY"]
        ELSE [fs |-> FsDrop(f, {r.path}), err |-> ""]

\* os.RemoveAll: the entry and everything below it; a missing path is no error
OsRemoveAll(f, p) ==
    LET r == RealPath(f, p, FALSE, MaxSymlinks)
    IN  IF r.err = "ENOENT" THEN [fs |-> f, err |-> ""]
        ELSE IF r.err # "" THEN [fs |-> f, err |-> r.err]
        ELSE [fs |-> FsDrop(f, {q \in DOMAIN f : Within(q, r.path)}), err |-> ""]

\* os.MkdirAll: [fs, err]
RECURSIVE OsMkdirAll(_, _)
OsMkdirAll(f, p) ==
    LET st == OsStat(f, p)
        up == OsMkdirAll(f, Dir(p))
        r == RealPath(up.fs, p, FALSE, MaxSymlinks)
    IN  IF st.err = "" THEN
            IF st.fi.kind = "dir" THEN [fs |-> f, err |-> ""]
            ELSE [fs |-> f, err |-> "ENOTDIR"]
        ELSE IF up.err # "" THEN up
        ELSE IF r.err # "ENOENT" THEN [fs |-> up.fs, err |-> IF r.err = "" THEN "EEXIST" ELSE r.err]
        ELSE [fs |-> FsPut(up.fs, r.path, DirEntry), err |-> ""]

\* os.Symlink(oldname, newname): [fs, err]
OsSymlink(f, oldname, newname) ==
    LET r == RealPath(f, newname, FALSE, MaxSymlinks)
    IN  IF r.err = "" THEN [fs |-> f, err |-> "EEXIST"]
        ELSE IF r.err # "ENOENT" THEN [fs |-> f, err |-> r.err]
        ELSE [fs |-> FsPut(f, r.path, LinkEntry(oldname)), err |-> ""]

\* os.Create: the file is created, or truncated when it exists; [fs, err, path]
OsCreate(f, p) ==
    LET r == RealPath(f, p, TRUE, MaxSymlinks)
    IN  IF r.err = "" /\ f[r.path].kind = "dir" THEN [fs |-> f, err |-> "EISDIR", path |-> p]
        ELSE IF r.err \notin {"", "ENOENT"} THEN [fs |-> f, err |-> r.err, path |-> p]
        ELSE [fs |-> FsPut(f, r.path, FileEntry(<<>>)), err |-> "", path |-> r.path]

(***************************************************************************)
(* FileGetter.Get and FileGetter.GetFile                                   *)
(***************************************************************************)
\* path := req.u.Path, or req.u.RawPath when it is set
UrlPath(u) == IF u.RawPath # <<>> THEN u.RawPath ELSE u.Path

IsSymlink_Always(fi) == TRUE

\* mode&os.ModeSymlink != 0
IsSymlink(fi) == fi.kind = "link"

\* SymlinkAny(path, dst): a symbolic link dst -> path
SymlinkAny(f, path, dst) == OsSymlink(f, path, dst)

\* a FileGetter call returns: the file system it leaves, its error ("" is nil),
\* req.Dst as it leaves it, and the statement it returned from
Return(op, f, err, dst, at) ==
    fres' = [op |-> op, fs |-> f, err |-> err, Dst |-> dst, at |-> at]

FileGet(f, req) ==
    \E path \in {UrlPath(req.u)} :
    \E src \in {OsStat(f, path)}, lst \in {OsLstat(f, req.Dst)} :
        IF src.err # "" THEN Return("Get", f, "source path error", req.Dst, "source")
        ELSE IF src.fi.kind # "dir"
        THEN Return("Get", f, "source path must be a directory", req.Dst, "source")
        ELSE IF lst.err # "" /\ ~IsNotExist(lst.err)
        THEN Return("Get", f, lst.err, req.Dst, "lstat")
        ELSE IF req.Inplace THEN Return("Get", f, "", path, "inplace")
        ELSE IF lst.err = "" /\ ~IsSymlink(lst.fi)
        THEN Return("Get", f, "destination exists and is not a symlink", req.Dst, "conflict")
        ELSE \E rm \in {IF lst.err = "" THEN OsRemove(f, req.Dst)
                        ELSE [fs |-> f, err |-> ""]} :
             IF rm.err # "" THEN Return("Get", f, rm.err, req.Dst, "remove")
             ELSE \E mk \in {OsMkdirAll(rm.fs, Dir(req.Dst))} :
                  IF mk.err # "" THEN Return("Get", mk.fs, mk.err, req.Dst, "mkdir")
                  ELSE \E ln \in {SymlinkAny(mk.fs, path, req.Dst)} :
                           Return("Get", ln.fs, ln.err, req.Dst, "link")

\* what os.Symlink may answer in GetFile: done, no privilege to create links
\* (a *LinkError holding ErrUnauthorized), or refused for another reason
LinkAnswers == {"ok", "unauthorized", "refused"}

\* GetFile removes the destination it found
GetFileRemoveDst_All(f, dst) == OsRemoveAll(f, dst)

GetFileRemoveDst(f, dst) == OsRemove(f, dst)

\* Copy(ctx, dst, src) into the file os.Create opened: the bytes read before the
\* token fired are written, none once it has fired
Copy(f, dstReal, content, cancelled) ==
    IF cancelled THEN [fs |-> f, err |-> "context canceled"]
    ELSE [fs |-> FsPut(f, dstReal, FileEntry(content)), err |-> ""]

\* the copy at the end of GetFile
FileGetFileCopy(f, req, content, cancelled) ==
    \E cr \in {OsCreate(f, req.Dst)} :
        IF cr.err # "" THEN Return("GetFile", cr.fs, cr.err, req.Dst, "create")
        ELSE \E cp \in {Copy(cr.fs, cr.path, content, cancelled)} :
                 Return("GetFile", cp.fs, cp.err, req.Dst, "copy")

FileGetFile(f, req, link, cancelled) ==
    \E path \in {UrlPath(req.u)} :
    \E src \in {OsStat(f, path)} :
        IF src.err # "" THEN Return("GetFile", f, "source path error", req.Dst, "source")
        ELSE IF src.fi.kind = "dir"
        THEN Return("GetFile", f, "source path must be a file", req.Dst, "source")
        ELSE IF req.Inplace THEN Return("GetFile", f, "", path, "inplace")
        ELSE \E lst \in {OsLstat(f, req.Dst)} :
             IF lst.err # "" /\ ~IsNotExist(lst.err)
             THEN Return("GetFile", f, lst.err, req.Dst, "lstat")
             ELSE \E rm \in {IF lst.err = "" THEN GetFileRemoveDst(f, req.Dst)
                             ELSE [fs |-> f, err |-> ""]} :
                  IF rm.err # "" THEN Return("GetFile", f, rm.err, req.Dst, "remove")
                  ELSE \E mk \in {OsMkdirAll(rm.fs, Dir(req.Dst))} :
                       IF mk.err # "" THEN Return("GetFile", mk.fs, mk.err, req.Dst, "mkdir")
                       ELSE IF req.Copy
                       THEN FileGetFileCopy(mk.fs, req, src.fi.data, cancelled)
                       ELSE \E ln \in {IF link = "ok" THEN OsSymlink(mk.fs, path, req.Dst)
                                       ELSE [fs |-> mk.fs, err |-> link]} :
                            IF ln.err = "" THEN Return("GetFile", ln.fs, "", req.Dst, "link")
                            ELSE IF ln.err # "unauthorized"
                            THEN Return("GetFile", ln.fs, ln.err, req.Dst, "link")
                            ELSE FileGetFileCopy(mk.fs, req, src.fi.data, cancelled)

(***************************************************************************)
(* Local retrieval: the file systems and requests FileGetter is run on     *)
(***************************************************************************)
PSrc == <<"/", "s">>

PTarget == <<"/", "t">>

PGone == <<"/", "gone">>

PParent == <<"/", "p">>

PDst == <<"/", "p", "/", "d">>

PChild == <<"/", "p", "/", "d", "/", "c">>

ContentA == <<"A">>

ContentB == <<"B">>

NoFiles == [q \in {} |-> DirEntry]

\* the source: missing, a file, a directory, or a link to a file or a directory
SrcShapes ==
    {NoFiles,
     PSrc :> FileEntry(ContentA),
     PSrc :> DirEntry,
     (PSrc :> LinkEntry(PTarget)) @@ (PTarget :> FileEntry(ContentA)),
     (PSrc :> LinkEntry(PTarget)) @@ (PTarget :> DirEntry)}

\* the destination: its parent missing, a file or a directory; itself missing, a
\* file, an empty directory, a directory holding a file, a link, a dangling link
DstShapes ==
    {NoFiles,
     PParent :> FileEntry(ContentB),
     PParent :> DirEntry,
     (PParent :> DirEntry) @@ (PDst :> FileEntry(ContentB)),
     (PParent :> DirEntry) @@ (PDst :> DirEntry),
     (PParent :> DirEntry) @@ (PDst :> DirEntry) @@ (PChild :> FileEntry(ContentB)),
     (PParent :> DirEntry) @@ (PDst :> LinkEntry(PSrc)),
     (PParent :> DirEntry) @@ (PDst :> LinkEntry(PGone))}

FileSystems == {(Root :> DirEntry) @@ s @@ d : s \in SrcShapes, d \in DstShapes}

FileRequests ==
    [u : [Path : {PSrc}, RawPath : {<<>>}], Dst : {PDst}, Copy : BOOLEAN,
     Inplace : BOOLEAN]

DetectOff ==
    /\ dreq = NoRes
    /\ dgetter = <<>>
    /\ denv = NoRes
    /\ dres = NoRes

InitFile ==
    /\ ctxDone = FALSE
    /\ DetectOff
    /\ fs \in FileSystems
    /\ fs0 = fs
    /\ freq = NoRes
    /\ fres = NoRes
    /\ s3 = NoRes
    /\ hg = NoRes

\* the caller's cancellation token fires
Cancel ==
    /\ ~ctxDone
    /\ ctxDone' = TRUE
    /\ UNCHANGED <<dreq, dgetter, denv, dres, fs, fs0, freq, fres, s3, hg>>

FileGetCall ==
    \E r \in FileRequests :
        /\ FileGet(fs, r)
        /\ fs' = fres'.fs
        /\ fs0' = fs
        /\ freq' = r
        /\ UNCHANGED <<ctxDone, dreq, dgetter, denv, dres, s3, hg>>

FileGetFileCall ==
    \E r \in FileRequests, link \in LinkAnswers :
        /\ FileGetFile(fs, r, link, ctxDone)
        /\ fs' = fres'.fs
        /\ fs0' = fs
        /\ freq' = r
        /\ UNCHANGED <<ctxDone, dreq, dgetter, denv, dres, s3, hg>>

NextFile == Cancel \/ FileGetCall \/ FileGetFileCall

SpecFile == InitFile /\ [][NextFile]_vars

(***************************************************************************)
(* Claims about local retrieval (checked under SpecFile)                   *)
(***************************************************************************)
GetRan == fres # NoRes /\ fres.op = "Get"

GetFileRan == fres # NoRes /\ fres.op = "GetFile"

SrcIsDir(f, r) ==
    OsStat(f, UrlPath(r.u)).err = "" /\ OsStat(f, UrlPath(r.u)).fi.kind = "dir"

SrcIsFile(f, r) ==
    OsStat(f, UrlPath(r.u)).err = "" /\ OsStat(f, UrlPath(r.u)).fi.kind # "dir"

\* what the destination was when the call began
DstWas(kinds) ==
    OsLstat(fs0, freq.Dst).err = "" /\ OsLstat(fs0, freq.Dst).fi.kind \in kinds

DstWasEmpty == Children(fs0, freq.Dst) = {}

\* C3: FileGetter.Get (Inplace off, the source an existing directory) never
\* removes or replaces a destination that is a real file or directory: the call
\* returns an error and leaves the file system as it was; the only entry Get
\* ever removes is a symbolic link.
C3_GetKeepsRealDestination ==
    (GetRan /\ ~freq.Inplace /\ SrcIsDir(fs0, freq))
        => /\ DstWas({"file", "dir"}) => (fres.err # "" /\ fs = fs0)
           /\ \A p \in DOMAIN fs0 :
                  (p \notin DOMAIN fs \/ fs[p] # fs0[p]) => fs0[p].kind = "link"

\* a Get that met a directory holding a file at its destination, and refused
C3_Witness ==
    /\ GetRan /\ ~freq.Inplace /\ SrcIsDir(fs0, freq)
    /\ DstWas({"dir"}) /\ ~DstWasEmpty
    /\ fres.err # "" /\ PChild \in DOMAIN fs

\* the destination after GetFile removed what was there: nothing, the link to
\* the source, or a file GetFile created
DstReplaced ==
    /\ Children(fs, freq.Dst) = {}
    /\ \/ freq.Dst \notin DOMAIN fs
       \/ fs[freq.Dst] = LinkEntry(UrlPath(freq.u))
       \/ /\ fs[freq.Dst].kind = "file"
          /\ fs[freq.Dst].data \in {<<>>, OsStat(fs0, UrlPath(freq.u)).fi.data}

PastRemoval == fres.at \in {"mkdir", "link", "create", "copy"}

KeyFoo == <<"foo">>

KeyDirMarker == <<"foo", "/">>

KeyDotDot == <<"foo", "/", ".", ".", "/", ".", ".", "/", "etc">>

KeyA == <<"foo", "/", "a">>

KeyBC == <<"foo", "/", "b", "/", "c">>

KeyFoobar == <<"foo", "bar", "/", "x">>

KeyOther == <<"zoo", "/", "z">>

\* the keys a bucket may hold, in the provider's (byte) order
KeyOrder == <<KeyFoo, KeyDirMarker, KeyDotDot, KeyA, KeyBC, KeyFoobar, KeyOther>>

KeyRank(k) == CHOOSE i \in 1..Len(KeyOrder) : KeyOrder[i] = k

\* the most objects a bucket holds
MaxBucket == 3

\* the most keys the provider returns in one page
MaxPageSize == 2

\* the Get calls one behaviour makes
MaxCalls == 2

SubsetAsSeq(S) == SelectSeq(KeyOrder, LAMBDA k : k \in S)

Buckets ==
    {SubsetAsSeq(S) : S \in {T \in SUBSET {KeyOrder[i] : i \in 1..Len(KeyOrder)} :
                                 Cardinality(T) <= MaxBucket}}

\* ListObjects(Bucket, Prefix, Marker): the keys with the prefix that come after
\* the marker, a page of them; IsTruncated tells whether more follow
ListObjects(bucket, prefix, marker, pageSize) ==
    LET after == SelectSeq(bucket, LAMBDA k :
                     HasPrefix(k, prefix) /\ (marker = <<>> \/ KeyRank(k) > KeyRank(marker)))
    IN  [Contents |-> SubSeq(after, 1, IF Len(after) < pageSize THEN Len(after) ELSE pageSize),
         IsTruncated |-> Len(after) > pageSize]

\* the transport's answer to a request
S3Answers == {"ok", "error"}

S3Dst == <<"/", "out", "/", "d">>

S3Old == <<"/", "out", "/", "d", "/", "old">>

S3Out == <<"/", "out">>

S3UrlGood ==
    UrlParse(<<"https", ":", "/", "/", "s3", ".", "amazonaws", ".", "com", "/", "bucket",
               "/", "foo">>)

S3UrlBad ==
    UrlParse(<<"https", ":", "/", "/", "s3", ".", "amazonaws", ".", "com", "/", "bucket">>)

S3Requests == [u : {S3UrlGood, S3UrlBad}, Dst : {S3Dst}]

S3FileSystems ==
    {Root :> DirEntry,
     (Root :> DirEntry) @@ (S3Out :> FileEntry(ContentB)),
     (Root :> DirEntry) @@ (S3Out :> DirEntry) @@ (S3Dst :> DirEntry)
         @@ (S3Old :> FileEntry(ContentB))}

S3Idle(bucket, pageSize) ==
    [pc |-> "idle", bucket |-> bucket, pageSize |-> pageSize, calls |-> 0,
     path |-> <<>>, Dst |-> <<>>, lastMarker |-> <<>>, hasMore |-> FALSE,
     page |-> <<>>, listed |-> <<>>, fetched |-> <<>>, written |-> {}, err |-> ""]

InitS3 ==
    /\ ctxDone = FALSE
    /\ DetectOff
    /\ fs \in S3FileSystems
    /\ fs0 = fs
    /\ freq = NoRes
    /\ fres = NoRes
    /\ s3 \in {S3Idle(b, n) : b \in Buckets, n \in 1..MaxPageSize}
    /\ hg = NoRes

\* Get returns err
S3Return(f, err) ==
    /\ fs' = f
    /\ s3' = [s3 EXCEPT !.pc = "done", !.err = err]

\* Get, up to the listing loop; lines 94-95: the listing starts without a marker
S3GetBegin ==
    /\ s3.pc \in {"idle", "done"}
    /\ s3.calls < MaxCalls
    /\ fs0' = fs
    /\ UNCHANGED <<ctxDone, dreq, dgetter, denv, dres, freq, fres, hg>>
    /\ \E req \in S3Requests :
       \E p \in {S3parseUrl(req.u)}, st \in {OsStat(fs, req.Dst)} :
       \E s \in {[s3 EXCEPT !.calls = @ + 1, !.err = "", !.page = <<>>, !.listed = <<>>,
                            !.fetched = <<>>, !.written = {}]} :
           IF p.err # "" THEN fs' = fs /\ s3' = [s EXCEPT !.pc = "done", !.err = p.err]
           ELSE IF st.err # "" /\ ~IsNotExist(st.err)
           THEN fs' = fs /\ s3' = [s EXCEPT !.pc = "done", !.err = st.err]
           ELSE \E rm \in {IF st.err = "" THEN OsRemoveAll(fs, req.Dst)
                           ELSE [fs |-> fs, err |-> ""]} :
                IF rm.err # "" THEN fs' = fs /\ s3' = [s EXCEPT !.pc = "done", !.err = rm.err]
                ELSE \E mk \in {OsMkdirAll(rm.fs, Dir(req.Dst))} :
                     IF mk.err # ""
                     THEN fs' = mk.fs /\ s3' = [s EXCEPT !.pc = "done", !.err = mk.err]
                     ELSE /\ fs' = mk.fs
                          /\ s3' = [s EXCEPT !.pc = "loop", !.path = p.path,
                                             !.Dst = req.Dst, !.lastMarker = <<>>,
                                             !.hasMore = TRUE]

\* the loop's test, and one ListObjects request with the marker kept so far
S3ListPage ==
    /\ s3.pc = "loop"
    /\ UNCHANGED <<ctxDone, dreq, dgetter, denv, dres, fs0, freq, fres, hg>>
    /\ IF ~s3.hasMore THEN S3Return(fs, "")
       ELSE \E answer \in S3Answers :
            \E resp \in {ListObjects(s3.bucket, s3.path, s3.lastMarker, s3.pageSize)} :
            \E s \in {[s3 EXCEPT !.listed = Append(@, s3.lastMarker)]} :
                /\ fs' = fs
                /\ IF answer = "error"
                   THEN s3' = [s EXCEPT !.pc = "done", !.err = "ListObjects failed"]
                   ELSE s3' = [s EXCEPT !.hasMore = resp.IsTruncated,
                                        !.page = resp.Contents,
                                        !.pc = IF resp.Contents = <<>> THEN "loop"
                                               ELSE "objects"]

\* line 114: the marker follows the last key seen
S3MarkerAfter_Stale(lastMarker, key) == lastMarker

S3MarkerAfter(lastMarker, key) == key

\* the loop body is over for one object
S3NextObject(s, f) ==
    /\ fs' = f
    /\ s3' = [s EXCEPT !.page = Tail(@),
                       !.pc = IF Tail(s.page) = <<>> THEN "loop" ELSE "objects"]

S3Failed(s, f, err) ==
    /\ fs' = f
    /\ s3' = [s EXCEPT !.pc = "done", !.err = err]

\* getObject(ctx, client, dst, bucket, key, ""): the GetObject request, the
\* parent directories, the file, the copy
S3getObject(s0, dst, key, answer) ==
    \E s \in {[s0 EXCEPT !.fetched = Append(@, key)]} :
        IF answer = "error" THEN S3Failed(s, fs, "GetObject failed")
        ELSE \E mk \in {OsMkdirAll(fs, Dir(dst))} :
             IF mk.err # "" THEN S3Failed(s, mk.fs, mk.err)
             ELSE \E cr \in {OsCreate(mk.fs, dst)} :
                  IF cr.err # "" THEN S3Failed(s, cr.fs, cr.err)
                  ELSE \E cp \in {Copy(cr.fs, cr.path, ContentA, ctxDone)} :
                       \E w \in {[s EXCEPT !.written = @ \cup {[key |-> key, dst |-> dst]}]} :
                           IF cp.err # "" THEN S3Failed(w, cp.fs, cp.err)
                           ELSE S3NextObject(w, cp.fs)

\* one object of the page: lines 113-132
S3Object ==
    /\ s3.pc = "objects"
    /\ UNCHANGED <<ctxDone, dreq, dgetter, denv, dres, fs0, freq, fres, hg>>
    /\ \E objPath \in {Head(s3.page)} :
       \E s \in {[s3 EXCEPT !.lastMarker = S3MarkerAfter(@, objPath)]} :
           IF HasSuffix(objPath, <<"/">>) THEN S3NextObject(s, fs)
           ELSE \E rel \in {Rel(s3.path, objPath)} :
                IF rel.err # "" THEN S3Failed(s, fs, rel.err)
                ELSE \E objDst \in {Join(s3.Dst, rel.path)}, answer \in S3Answers :
                         S3getObject(s, objDst, objPath, answer)

NextS3 == Cancel \/ S3GetBegin \/ S3ListPage \/ S3Object

SpecS3 == InitS3 /\ [][NextS3]_vars

(***************************************************************************)
(* Claims about S3Getter.Get (checked under SpecS3)                        *)
(***************************************************************************)
SeqToSet(s) == {s[i] : i \in 1..Len(s)}

NoRepeat(s) == \A i, j \in 1..Len(s) : i # j => s[i] # s[j]

\* the keys of the bucket the prefix listing returns that are no directory marker
S3Wanted ==
    {k \in SeqToSet(s3.bucket) : HasPrefix(k, s3.path) /\ ~HasSuffix(k, <<"/">>)}

S3Succeeded == s3.pc = "done" /\ s3.err = ""

\* C5: over a listing the provider returns in pages, Get fetches every listed
\* key that does not end in "/" exactly once - no key twice at any moment, all
\* of them when it returns nil - asks for no page twice, and the first request
\* of every call carries no marker.
C5_EveryKeyFetchedOnce ==
    /\ NoRepeat(s3.fetched)
    /\ NoRepeat(s3.listed)
    /\ Len(s3.listed) > 0 => s3.listed[1] = <<>>
    /\ S3Succeeded => /\ SeqToSet(s3.fetched) = S3Wanted
                      /\ ~s3.hasMore

\* the second Get of a behaviour went through more than one page and fetched
\* more than one object
C5_Witness ==
    /\ S3Succeeded
    /\ s3.calls = 2
    /\ Len(s3.listed) > 1
    /\ Len(s3.fetched) > 1

\* C6: at a page boundary, once the token has fired, Get issues no further
\* page-listing request.
C6_NoListingAfterCancel ==
    [][(ctxDone /\ s3.pc = "loop" /\ Len(s3.listed) > 0)
           => Len(s3'.listed) <= Len(s3.listed)]_vars

\* C10: every file Get writes is at the path made of the destination root and
\* the listed key without the request's key prefix, and lies inside the
\* destination root.
C10_WritesStayUnderDst ==
    \A w \in s3.written :
        /\ w.dst = Join(s3.Dst, TrimPrefix(w.key, s3.path))
        /\ Within(w.dst, s3.Dst)

(***************************************************************************)
(* HgGetter.Get and HgGetter.GetFile                                       *)
(***************************************************************************)
\* q.Del(key); newURL.RawQuery = q.Encode()
QueryDel(u, key) ==
    LET pairs == IF u.RawQuery = <<>> THEN <<>> ELSE Split(u.RawQuery, "&")
        kept == SelectSeq(pairs, LAMBDA kv : SplitN(kv, "=", 2)[1] # key)
    IN  [u EXCEPT !.RawQuery = StringsJoin(kept, "&")]

\* fixWindowsDrivePath: a file URL whose path is a drive-letter path
fixWindowsDrivePath(u) ==
    /\ GOOS = "windows"
    /\ u.Scheme = <<"file">>
    /\ Len(u.Path) > 1
    /\ u.Path[1] # "/"
    /\ u.Path[2] = ":"

HgSteps == {"clone", "pull", "update"}

\* how a subprocess that ran to its end exits
HgExits == {"ok", "failed"}

HgCo == <<"/", "co">>

HgOut == <<"/", "out">>

HgFileDst == <<"/", "out", "/", "f">>

TmpDir == <<"/", "tmp">>

\* safetemp.Dir("", "getter"): a fresh directory, and in it the path of a
\* directory that does not exist yet; the closer removes the fresh directory
TdRoot == <<"/", "tmp", "/", "getter">>

Td == Join(TdRoot, <<"temp">>)

HgMeta == <<".", "hg">>

RepoFile == <<"file">>

HgUrlRev ==
    UrlParse(<<"https", ":", "/", "/", "example", ".", "com", "/", "repo", "/", "file",
               "?", "rev", "=", "abc">>)

HgUrlPlain ==
    UrlParse(<<"https", ":", "/", "/", "example", ".", "com", "/", "repo", "/", "file">>)

\* a destination below what may be a regular file
HgUnderFile == Join(HgFileDst, <<"co">>)

HgGetRequests ==
    [u : {HgUrlRev, HgUrlPlain}, Dst : {HgCo, HgUnderFile}, Copy : {FALSE},
     Inplace : {FALSE}]

HgGetFileRequests ==
    [u : {HgUrlRev, HgUrlPlain}, Dst : {HgFileDst}, Copy : BOOLEAN, Inplace : BOOLEAN]

MaxHgCalls == 1

HgFileSystems ==
    {(Root :> DirEntry) @@ (TmpDir :> DirEntry) @@ co @@ out :
        co \in {NoFiles, (HgCo :> DirEntry) @@ (Join(HgCo, HgMeta) :> DirEntry)},
        out \in {NoFiles,
                 HgOut :> DirEntry,
                 (HgOut :> DirEntry) @@ (HgFileDst :> FileEntry(ContentB)),
                 (HgOut :> DirEntry) @@ (HgFileDst :> LinkEntry(HgCo))}}

\* onPath: the hg binary is on the PATH; hasFile: the repository holds the
\* requested file at the requested revision
HgIdle(onPath, hasFile) ==
    [pc |-> "idle", onPath |-> onPath, hasFile |-> hasFile, calls |-> 0, op |-> "",
     Dst |-> <<>>, origDst |-> <<>>, Inplace |-> FALSE, filename |-> <<>>,
     tdCreated |-> FALSE, rev |-> <<>>, running |-> "none", exit |-> "",
     log |-> <<>>, firedDuring |-> "none", err |-> ""]

InitHg ==
    /\ ctxDone = FALSE
    /\ DetectOff
    /\ fs \in HgFileSystems
    /\ fs0 = fs
    /\ freq = NoRes
    /\ fres = NoRes
    /\ s3 = NoRes
    /\ hg \in {HgIdle(p, h) : p \in BOOLEAN, h \in BOOLEAN}

\* the token fires; firedDuring notes the subprocess that was running
HgCancel ==
    /\ ~ctxDone
    /\ ctxDone' = TRUE
    /\ hg' = [hg EXCEPT !.firedDuring = hg.running]
    /\ UNCHANGED <<dreq, dgetter, denv, dres, fs, fs0, freq, fres, s3>>

\* the deferred tdcloser.Close()
TdClose(f) == OsRemoveAll(f, TdRoot).fs

HgDone(h, f, err) ==
    /\ fs' = f
    /\ hg' = [h EXCEPT !.pc = "done", !.running = "none", !.err = err]

\* Get has returned err: a Get call is over, GetFile goes on at line 89
HgGetReturns(h, f, err) ==
    /\ fs' = f
    /\ hg' = [h EXCEPT !.pc = IF h.op = "Get" THEN "done" ELSE "returned",
                       !.running = "none", !.err = err]
    /\ UNCHANGED fres

\* exec.Command(...) / exec.CommandContext(ctx, ...) handed to getRunCommand
HgStart(h, f, step, arg) ==
    /\ fs' = f
    /\ hg' = [h EXCEPT !.pc = step, !.running = step,
                       !.log = Append(@, [cmd |-> step, arg |-> arg])]
    /\ UNCHANGED fres

HgNeedsClone_Always(st) == TRUE

\* if err != nil (line 52), err being what os.Stat(req.Dst) answered
HgNeedsClone(st) == st.err # ""

\* Get, up to its first subprocess (lines 24-58)
HgGetBody(h, f, req) ==
    IF ~h.onPath THEN HgGetReturns(h, f, "hg must be available and on the PATH")
    ELSE \E parsed \in {UrlParse(UrlString(req.u))} :
         IF parsed.err # "" THEN HgGetReturns(h, f, parsed.err)
         ELSE \E newURL \in {IF fixWindowsDrivePath(parsed)
                             THEN [parsed EXCEPT !.Path = <<"/">> \o @] ELSE parsed} :
              \E rev \in {QueryGet(newURL, <<"rev">>)}, st \in {OsStat(f, req.Dst)} :
              \E h1 \in {[h EXCEPT !.rev = rev]} :
                  IF st.err # "" /\ ~IsNotExist(st.err) THEN HgGetReturns(h1, f, st.err)
                  ELSE IF HgNeedsClone(st)
                  THEN HgStart(h1, f, "clone",
                               <<"-", "U", " ">> \o UrlString(QueryDel(newURL, <<"rev">>)))
                  ELSE HgStart(h1, f, "pull", <<>>)

HgNewCall(op, req) ==
    [hg EXCEPT !.calls = @ + 1, !.op = op, !.Dst = req.Dst, !.origDst = req.Dst,
               !.Inplace = req.Inplace, !.filename = <<>>, !.tdCreated = FALSE,
               !.rev = <<>>, !.running = "none", !.exit = "", !.log = <<>>,
               !.firedDuring = "none", !.err = ""]

HgGetCall ==
    /\ hg.pc \in {"idle", "done"}
    /\ hg.calls < MaxHgCalls
    /\ fs0' = fs
    /\ UNCHANGED <<ctxDone, dreq, dgetter, denv, dres, freq, s3>>
    /\ \E req \in HgGetRequests : HgGetBody(HgNewCall("Get", req), fs, req)

\* what safetemp.Dir may answer
TempAnswers == {"ok", "error"}

\* GetFile, up to the first subprocess of the Get it calls (lines 67-89)
HgGetFileCall ==
    /\ hg.pc \in {"idle", "done"}
    /\ hg.calls < MaxHgCalls
    /\ fs0' = fs
    /\ UNCHANGED <<ctxDone, dreq, dgetter, denv, dres, freq, s3>>
    /\ \E req \in HgGetFileRequests, temp \in TempAnswers :
           IF temp = "error"
           THEN HgDone(HgNewCall("GetFile", req), fs, "safetemp.Dir failed") /\ UNCHANGED fres
           ELSE \E f \in {FsPut(fs, TdRoot, DirEntry)} :
                \E h \in {[HgNewCall("GetFile", req) EXCEPT
                              !.tdCreated = TRUE,
                              !.filename = Base(req.u.Path),
                              !.Dst = Td]} :
                    HgGetBody(h, f, [req EXCEPT !.u.Path = Dir(req.u.Path),
                                                !.u.Host = IF GOOS = "windows"
                                                           THEN <<"localhost">> ELSE @,
                                                !.Dst = Td])

\* "hg clone -U" ends; it made the destination, without a working copy
HgCloneExit ==
    /\ hg.running = "clone"
    /\ UNCHANGED <<ctxDone, dreq, dgetter, denv, dres, fs0, freq, s3>>
    /\ \E exit \in HgExits :
       \E h \in {[hg EXCEPT !.exit = exit]} :
           IF exit = "failed" THEN HgGetReturns(h, fs, "hg clone failed")
           ELSE HgStart(h, OsMkdirAll(fs, Join(hg.Dst, HgMeta)).fs, "pull", <<>>)

\* "hg pull" ends; update is started with the context
HgPullExit ==
    /\ hg.running = "pull"
    /\ UNCHANGED <<ctxDone, dreq, dgetter, denv, dres, fs0, freq, s3>>
    /\ \E exit \in HgExits :
       \E h \in {[hg EXCEPT !.exit = exit]} :
           IF exit = "failed" THEN HgGetReturns(h, fs, "hg pull failed")
           ELSE IF ctxDone THEN HgGetReturns([h EXCEPT !.running = "none"], fs, "context canceled")
           ELSE HgStart(h, fs, "update", hg.rev)

\* "hg update" ends, or is killed because the token has fired
HgUpdateExit ==
    /\ hg.running = "update"
    /\ UNCHANGED <<ctxDone, dreq, dgetter, denv, dres, fs0, freq, s3>>
    /\ IF ctxDone
       THEN HgGetReturns([hg EXCEPT !.exit = "killed"], fs, "signal: killed")
       ELSE \E exit \in HgExits :
            \E h \in {[hg EXCEPT !.exit = exit]} :
                IF exit = "failed" THEN HgGetReturns(h, fs, "hg update failed")
                ELSE HgGetReturns(h, IF hg.hasFile
                                     THEN FsPut(fs, Join(hg.Dst, RepoFile), FileEntry(ContentA))
                                     ELSE fs, "")

\* GetFile after its Get has returned (lines 89-102): on success the file
\* backend's GetFile with Copy set and the caller's destination; the temporary
\* directory is removed on every way out
HgGetFileRest ==
    /\ hg.pc = "returned"
    /\ UNCHANGED <<ctxDone, dreq, dgetter, denv, dres, fs0, freq, s3>>
    /\ IF hg.err # "" THEN HgDone(hg, TdClose(fs), hg.err) /\ UNCHANGED fres
       ELSE \E u \in {UrlParse(fmtFileURL(Join(Td, hg.filename)))} :
            IF u.err # "" THEN HgDone(hg, TdClose(fs), u.err) /\ UNCHANGED fres
            ELSE /\ FileGetFile(fs, [u |-> [Path |-> u.Path, RawPath |-> <<>>],
                                     Dst |-> hg.origDst, Copy |-> TRUE,
                                     Inplace |-> hg.Inplace], "ok", ctxDone)
                 /\ HgDone([hg EXCEPT !.Dst = fres'.Dst], TdClose(fres'.fs), fres'.err)

NextHg ==
    \/ HgCancel
    \/ HgGetCall
    \/ HgGetFileCall
    \/ HgCloneExit
    \/ HgPullExit
    \/ HgUpdateExit
    \/ HgGetFileRest

SpecHg == InitHg /\ [][NextHg]_vars

(***************************************************************************)
(* Claims about Mercurial retrieval                                        *)
(***************************************************************************)
\* C7: clone, pull and update alike are bound to the cancellation token: when
\* the token has fired while one of them was running, no later step has been
\* started and that subprocess has not run on to a successful end.
C7_EveryStepBoundToToken ==
    hg.firedDuring \in HgSteps =>
        /\ hg.log[Len(hg.log)].cmd = hg.firedDuring
        /\ ~(hg.running = "none" /\ hg.exit = "ok")

TempCheckoutGone == \A p \in DOMAIN fs : ~Within(p, TdRoot)

\* C8: whenever HgGetter.GetFile has returned after the temporary directory
\* was created, the temporary checkout no longer exists, and after a
\* successful call the caller's original destination holds a copy of the
\* requested file (a regular file, not a link) and the request's destination
\* is that original destination, not a path into the removed checkout.
C8_TempRemovedAndCopyAtDst ==
    (hg.pc = "done" /\ hg.op = "GetFile" /\ hg.tdCreated) =>
        /\ TempCheckoutGone
        /\ hg.err = "" =>
               /\ hg.origDst \in DOMAIN fs
               /\ fs[hg.origDst] = FileEntry(ContentA)
               /\ hg.Dst = hg.origDst


HgLogCmds == [i \in 1..Len(hg.log) |-> hg.log[i].cmd]

\* what os.Stat answered for the destination when the Get call began
HgDstStat == OsStat(fs0, hg.origDst).err

HgGetCalled == hg.op = "Get" /\ hg.calls > 0

\* C11: HgGetter.Get runs its steps in a fixed order and stops at the first
\* failure.  Without hg on the PATH no subprocess is started and the file
\* system is as it was.  With hg on the PATH, clone -U is the first step
\* exactly when the destination did not exist (a destination that cannot be
\* examined starts no step), clone is followed by pull, pull by update, and
\* nothing else is ever started; a step that failed or was killed is the last
\* one, Get returns after a clone only when it failed, and after a pull only
\* when it failed or update could not be started for the fired token.
C11_StepsInOrderAbortOnFailure ==
    /\ HgLogCmds \in {<<>>, <<"clone">>, <<"clone", "pull">>,
                      <<"clone", "pull", "update">>, <<"pull">>, <<"pull", "update">>}
    /\ hg.exit \in {"failed", "killed"} => hg.running = "none"
    /\ hg.running = "none" /\ hg.log # <<>> /\ hg.log[Len(hg.log)].cmd = "clone"
           => hg.exit = "failed"
    /\ hg.running = "none" /\ hg.log # <<>> /\ hg.log[Len(hg.log)].cmd = "pull"
           => hg.exit = "failed" \/ ctxDone
    /\ hg.calls > 0 /\ ~hg.onPath => hg.log = <<>>
    /\ HgGetCalled /\ ~hg.onPath => fs = fs0 /\ hg.err # ""
    /\ HgGetCalled /\ hg.onPath =>
           /\ HgDstStat = "" => hg.log # <<>> /\ hg.log[1].cmd = "pull"
           /\ IsNotExist(HgDstStat) => hg.log # <<>> /\ hg.log[1].cmd = "clone"
           /\ HgDstStat # "" /\ ~IsNotExist(HgDstStat) => hg.log = <<>> /\ hg.err # ""

\* a Get that found no destination has cloned, pulled and updated, and has returned
C11_Witness ==
    /\ HgGetCalled
    /\ hg.pc = "done"
    /\ hg.err = ""
    /\ HgLogCmds = <<"clone", "pull", "update">>

====
